---- MODULE Spec2Model ----
(***************************************************************************)
(* Blogicum: the request handlers of blog/views.py over the Post,          *)
(* Category and Comment tables.  One action per view; every action records *)
(* the request it served and the response it gave in resp.                 *)
(***************************************************************************)
EXTENDS Integers, FiniteSets, Sequences, TLC

\* ---------------------------------------------------------------- bounds
MaxPosts == 2
MaxComments == 1
MaxTime == 1

\* ---------------------------------------------------------------- domains
Users == {"u1", "u2"}
Anonymous == "anonymous"
Requesters == Users \cup {Anonymous}
Staff == {"u2"}
Usernames == Users \cup {"ghost"}
Categories == {"c1", "c2"}
NoCategory == "none"
CategoryChoices == Categories \cup {NoCategory}
Slugs == Categories \cup {"nosuch"}
Times == 0..MaxTime
PostIds == 1..MaxPosts
CommentIds == 1..MaxComments
Methods == {"GET", "POST"}
Titles == {"", "t"}
Texts == {"", "a", "b"}
DefaultIsPublished == TRUE

VARIABLES posts, comments, nextPostId, nextCommentId, catPub, now,
          queryset_now, resp

vars == <<posts, comments, nextPostId, nextCommentId, catPub, now,
          queryset_now, resp>>

db == <<posts, comments, nextPostId, nextCommentId, catPub>>

\* ---------------------------------------------------------------- responses
Response(view, user, method, post_id, comment_id, arg, status, target, target_id, list) ==
    [view |-> view, user |-> user, method |-> method, post_id |-> post_id,
     comment_id |-> comment_id, arg |-> arg, status |-> status,
     target |-> target, target_id |-> target_id, list |-> list]

Idle == Response("idle", Anonymous, "GET", 0, 0, "", 0, "", 0, {})

is_authenticated(user) == user \in Users

\* PostForm / CommentForm: a ModelForm reads only the fields of Meta.fields from
\* the submitted data (author, post and is_published are not among them); a
\* required text field must be non-empty.
PostFormData == [title : Titles, pub_date : Times, category : CategoryChoices]
PostForm_is_valid(data) == data.title # ""
CommentFormData == [text : Texts]
CommentForm_is_valid(data) == data.text # ""

\* ---------------------------------------------------------------- queries
category_is_published(p) ==
    posts[p].category # NoCategory /\ catPub[posts[p].category]

get_posts(add_filter, t) ==
    IF add_filter
    THEN {p \in DOMAIN posts : /\ posts[p].pub_date <= t
                               /\ posts[p].is_published
                               /\ category_is_published(p)}
    ELSE DOMAIN posts

get_comment_post_any_post(post_id, comment_id) ==
    {c \in DOMAIN comments : c = comment_id}

get_comment_post(post_id, comment_id) ==
    {c \in DOMAIN comments : c = comment_id /\ comments[c].post = post_id}

\* Comment.post is a foreign key: deleting the post removes its comments.
CascadeComments(post_id) ==
    [c \in {d \in DOMAIN comments : comments[d].post # post_id} |-> comments[c]]

Init ==
    /\ posts = <<>>
    /\ comments = <<>>
    /\ nextPostId = 1
    /\ nextCommentId = 1
    /\ catPub = [c \in Categories |-> TRUE]
    /\ now = 0
    /\ queryset_now = 0
    /\ resp = Idle

\* ---------------------------------------------------------------- clock, admin
Tick ==
    /\ resp = Idle
    /\ now < MaxTime
    /\ now' = now + 1
    /\ UNCHANGED <<db, queryset_now, resp>>

\* The response is delivered; the server waits for the next request.
Respond ==
    /\ resp # Idle
    /\ resp' = Idle
    /\ UNCHANGED <<db, now, queryset_now>>

PostAdmin_set_is_published(user, p, flag) ==
    /\ resp = Idle
    /\ user \in Staff
    /\ p \in DOMAIN posts
    /\ posts' = [posts EXCEPT ![p].is_published = flag]
    /\ resp' = Response("admin", user, "POST", p, 0, "", 302, "admin", 0, {})
    /\ UNCHANGED <<comments, nextPostId, nextCommentId, catPub, now, queryset_now>>

CategoryAdmin_set_is_published(user, c, flag) ==
    /\ resp = Idle
    /\ user \in Staff
    /\ catPub' = [catPub EXCEPT ![c] = flag]
    /\ resp' = Response("admin", user, "POST", 0, 0, c, 302, "admin", 0, {})
    /\ UNCHANGED <<posts, comments, nextPostId, nextCommentId, now, queryset_now>>

\* ---------------------------------------------------------------- comments
add_comment(user, method, post_id) ==
    /\ resp = Idle
    /\ IF ~is_authenticated(user)
       THEN /\ resp' = Response("add_comment", user, method, post_id, 0, "", 302, "login", 0, {})
            /\ UNCHANGED <<db, now, queryset_now>>
       ELSE IF post_id \notin DOMAIN posts
       THEN /\ resp' = Response("add_comment", user, method, post_id, 0, "", 404, "", 0, {})
            /\ UNCHANGED <<db, now, queryset_now>>
       ELSE IF method = "POST"
       THEN \E data \in CommentFormData :
            IF CommentForm_is_valid(data)
            THEN
            /\ nextCommentId <= MaxComments
            /\ comments' = [c \in DOMAIN comments \cup {nextCommentId} |->
                               IF c = nextCommentId
                               THEN [author |-> user, post |-> post_id, text |-> data.text]
                               ELSE comments[c]]
            /\ nextCommentId' = nextCommentId + 1
            /\ resp' = Response("add_comment", user, method, post_id, nextCommentId, "",
                                302, "post_detail", post_id, {})
            /\ UNCHANGED <<posts, nextPostId, catPub, now, queryset_now>>
            ELSE
            /\ resp' = Response("add_comment", user, method, post_id, 0, "",
                                302, "post_detail", post_id, {})
            /\ UNCHANGED <<db, now, queryset_now>>
       ELSE /\ resp' = Response("add_comment", user, method, post_id, 0, "",
                                302, "post_detail", post_id, {})
            /\ UNCHANGED <<db, now, queryset_now>>

edit_comment(user, method, post_id, comment_id) ==
    /\ resp = Idle
    /\ IF ~is_authenticated(user)
       THEN /\ resp' = Response("edit_comment", user, method, post_id, comment_id, "",
                                302, "login", 0, {})
            /\ UNCHANGED <<db, now, queryset_now>>
       ELSE IF get_comment_post(post_id, comment_id) = {}
       THEN /\ resp' = Response("edit_comment", user, method, post_id, comment_id, "",
                                404, "", 0, {})
            /\ UNCHANGED <<db, now, queryset_now>>
       ELSE IF user # comments[comment_id].author
       THEN /\ resp' = Response("edit_comment", user, method, post_id, comment_id, "",
                                302, "post_detail", post_id, {})
            /\ UNCHANGED <<db, now, queryset_now>>
       ELSE IF method = "POST"
       THEN \E data \in CommentFormData :
            IF CommentForm_is_valid(data)
            THEN
            /\ comments' = [comments EXCEPT ![comment_id].text = data.text]
            /\ resp' = Response("edit_comment", user, method, post_id, comment_id, "",
                                302, "post_detail", post_id, {})
            /\ UNCHANGED <<posts, nextPostId, nextCommentId, catPub, now, queryset_now>>
            ELSE
            /\ resp' = Response("edit_comment", user, method, post_id, comment_id, "",
                                200, "", 0, {})
            /\ UNCHANGED <<db, now, queryset_now>>
       ELSE /\ resp' = Response("edit_comment", user, method, post_id, comment_id, "",
                                200, "", 0, {})
            /\ UNCHANGED <<db, now, queryset_now>>

delete_comment(user, method, post_id, comment_id) ==
    /\ resp = Idle
    /\ IF ~is_authenticated(user)
       THEN /\ resp' = Response("delete_comment", user, method, post_id, comment_id, "",
                                302, "login", 0, {})
            /\ UNCHANGED <<db, now, queryset_now>>
       ELSE IF get_comment_post(post_id, comment_id) = {}
       THEN /\ resp' = Response("delete_comment", user, method, post_id, comment_id, "",
                                404, "", 0, {})
            /\ UNCHANGED <<db, now, queryset_now>>
       ELSE IF user # comments[comment_id].author
       THEN /\ resp' = Response("delete_comment", user, method, post_id, comment_id, "",
                                302, "post_detail", post_id, {})
            /\ UNCHANGED <<db, now, queryset_now>>
       ELSE IF method = "POST"
       THEN /\ comments' = [c \in DOMAIN comments \ {comment_id} |-> comments[c]]
            /\ resp' = Response("delete_comment", user, method, post_id, comment_id, "",
                                302, "post_detail", post_id, {})
            /\ UNCHANGED <<posts, nextPostId, nextCommentId, catPub, now, queryset_now>>
       ELSE /\ resp' = Response("delete_comment", user, method, post_id, comment_id, "",
                                200, "", 0, {})
            /\ UNCHANGED <<db, now, queryset_now>>

\* ---------------------------------------------------------------- posts
OnlyAuthorMixin_test_func_any_user(user, post_id) == TRUE

OnlyAuthorMixin_test_func(user, post_id) == posts[post_id].author = user

PostCreateView_form_valid_first_user(user, data) ==
    [author |-> "u1", title |-> data.title, pub_date |-> data.pub_date,
     category |-> data.category, is_published |-> DefaultIsPublished]

PostCreateView_form_valid(user, data) ==
    [author |-> user, title |-> data.title, pub_date |-> data.pub_date,
     category |-> data.category, is_published |-> DefaultIsPublished]

PostCreateView(user, method) ==
    /\ resp = Idle
    /\ IF ~is_authenticated(user)
       THEN /\ resp' = Response("create_post", user, method, 0, 0, "", 302, "login", 0, {})
            /\ UNCHANGED <<db, now, queryset_now>>
       ELSE IF method = "POST"
       THEN \E data \in PostFormData :
            IF PostForm_is_valid(data)
            THEN
            /\ nextPostId <= MaxPosts
            /\ posts' = [p \in DOMAIN posts \cup {nextPostId} |->
                            IF p = nextPostId THEN PostCreateView_form_valid(user, data)
                            ELSE posts[p]]
            /\ nextPostId' = nextPostId + 1
            /\ resp' = Response("create_post", user, method, nextPostId, 0, user,
                                302, "profile", 0, {})
            /\ UNCHANGED <<comments, nextCommentId, catPub, now, queryset_now>>
            ELSE
            /\ resp' = Response("create_post", user, method, 0, 0, "", 200, "", 0, {})
            /\ UNCHANGED <<db, now, queryset_now>>
       ELSE /\ resp' = Response("create_post", user, method, 0, 0, "", 200, "", 0, {})
            /\ UNCHANGED <<db, now, queryset_now>>

PostForm_save(post, data) ==
    [post EXCEPT !.title = data.title, !.pub_date = data.pub_date,
                 !.category = data.category]

PostUpdateView(user, method, post_id) ==
    /\ resp = Idle
    /\ IF post_id \notin DOMAIN posts
       THEN /\ resp' = Response("edit_post", user, method, post_id, 0, "", 404, "", 0, {})
            /\ UNCHANGED <<db, now, queryset_now>>
       ELSE IF ~is_authenticated(user) \/ ~OnlyAuthorMixin_test_func(user, post_id)
       THEN /\ resp' = Response("edit_post", user, method, post_id, 0, "",
                                302, "post_detail", post_id, {})
            /\ UNCHANGED <<db, now, queryset_now>>
       ELSE IF method = "POST"
       THEN \E data \in PostFormData :
            IF PostForm_is_valid(data)
            THEN
            /\ posts' = [posts EXCEPT ![post_id] = PostForm_save(posts[post_id], data)]
            /\ resp' = Response("edit_post", user, method, post_id, 0, "",
                                302, "post_detail", post_id, {})
            /\ UNCHANGED <<comments, nextPostId, nextCommentId, catPub, now, queryset_now>>
            ELSE
            /\ resp' = Response("edit_post", user, method, post_id, 0, "", 200, "", 0, {})
            /\ UNCHANGED <<db, now, queryset_now>>
       ELSE /\ resp' = Response("edit_post", user, method, post_id, 0, "", 200, "", 0, {})
            /\ UNCHANGED <<db, now, queryset_now>>

delete_post_allowed_any_user(user, post_id) == TRUE

delete_post_allowed(user, post_id) == user = posts[post_id].author

delete_post(user, method, post_id) ==
    /\ resp = Idle
    /\ IF ~is_authenticated(user)
       THEN /\ resp' = Response("delete_post", user, method, post_id, 0, "", 302, "login", 0, {})
            /\ UNCHANGED <<db, now, queryset_now>>
       ELSE IF post_id \notin DOMAIN posts
       THEN /\ resp' = Response("delete_post", user, method, post_id, 0, "", 404, "", 0, {})
            /\ UNCHANGED <<db, now, queryset_now>>
       ELSE IF ~delete_post_allowed(user, post_id)
       THEN /\ resp' = Response("delete_post", user, method, post_id, 0, "",
                                302, "post_detail", post_id, {})
            /\ UNCHANGED <<db, now, queryset_now>>
       ELSE IF method = "POST"
       THEN /\ posts' = [p \in DOMAIN posts \ {post_id} |-> posts[p]]
            /\ comments' = CascadeComments(post_id)
            /\ resp' = Response("delete_post", user, method, post_id, 0, "", 302, "index", 0, {})
            /\ UNCHANGED <<nextPostId, nextCommentId, catPub, now, queryset_now>>
       ELSE /\ resp' = Response("delete_post", user, method, post_id, 0, "", 200, "", 0, {})
            /\ UNCHANGED <<db, now, queryset_now>>

\* ---------------------------------------------------------------- pages
post_detail_status(user, post_id) ==
    IF post_id \notin DOMAIN posts THEN 404
    ELSE IF posts[post_id].author = user THEN 200
    ELSE IF ~posts[post_id].is_published THEN 404
    ELSE IF posts[post_id].category = NoCategory THEN 500
    ELSE IF ~catPub[posts[post_id].category] THEN 404
    ELSE IF posts[post_id].pub_date > now THEN 404
    ELSE 200

post_detail(user, post_id) ==
    /\ resp = Idle
    /\ resp' = Response("post_detail", user, "GET", post_id, 0, "",
                        post_detail_status(user, post_id), "", 0, {})
    /\ UNCHANGED <<db, now, queryset_now>>

PostsListView_queryset == get_posts(TRUE, queryset_now)

PostsListView(user) ==
    /\ resp = Idle
    /\ resp' = Response("index", user, "GET", 0, 0, "", 200, "", 0, PostsListView_queryset)
    /\ UNCHANGED <<db, now, queryset_now>>

profile_posts_always_filtered(user, username) ==
    {p \in get_posts(TRUE, now) : posts[p].author = username}

profile_posts(user, username) ==
    {p \in (IF user = username THEN get_posts(FALSE, now) ELSE get_posts(TRUE, now)) :
        posts[p].author = username}

profile_details(user, username) ==
    /\ resp = Idle
    /\ resp' = IF username \notin Users
               THEN Response("profile", user, "GET", 0, 0, username, 404, "", 0, {})
               ELSE Response("profile", user, "GET", 0, 0, username, 200, "", 0,
                             profile_posts(user, username))
    /\ UNCHANGED <<db, now, queryset_now>>

category_queryset_all_categories(category_slug) == get_posts(TRUE, now)

category_queryset(category_slug) ==
    {p \in get_posts(TRUE, now) : posts[p].category = category_slug}

category_posts(user, category_slug) ==
    /\ resp = Idle
    /\ resp' = IF category_slug \notin Categories \/ ~catPub[category_slug]
               THEN Response("category", user, "GET", 0, 0, category_slug, 404, "", 0, {})
               ELSE Response("category", user, "GET", 0, 0, category_slug, 200, "", 0,
                             category_queryset(category_slug))
    /\ UNCHANGED <<db, now, queryset_now>>

Next ==
    \/ Respond
    \/ Tick
    \/ \E u \in Staff, p \in PostIds, f \in BOOLEAN : PostAdmin_set_is_published(u, p, f)
    \/ \E u \in Staff, c \in Categories, f \in BOOLEAN : CategoryAdmin_set_is_published(u, c, f)
    \/ \E u \in Requesters, m \in Methods, p \in PostIds : add_comment(u, m, p)
    \/ \E u \in Requesters, m \in Methods, p \in PostIds, c \in CommentIds :
          edit_comment(u, m, p, c)
    \/ \E u \in Requesters, m \in Methods, p \in PostIds, c \in CommentIds :
          delete_comment(u, m, p, c)
    \/ \E u \in Requesters, m \in Methods : PostCreateView(u, m)
    \/ \E u \in Requesters, m \in Methods, p \in PostIds : PostUpdateView(u, m, p)
    \/ \E u \in Requesters, m \in Methods, p \in PostIds : delete_post(u, m, p)
    \/ \E u \in Requesters, p \in PostIds : post_detail(u, p)
    \/ \E u \in Requesters : PostsListView(u)
    \/ \E u \in Requesters, n \in Usernames : profile_details(u, n)
    \/ \E u \in Requesters, s \in Slugs : category_posts(u, s)

Spec == Init /\ [][Next]_vars

\* ================================================================ claims
\* The visibility filter as the specification words it: the post is published,
\* its category exists and is published, and its pub_date is not after t.
Visible(p, t) ==
    /\ posts[p].is_published
    /\ posts[p].category \in Categories
    /\ catPub[posts[p].category]
    /\ posts[p].pub_date <= t

PostTouched(p) == p \notin DOMAIN posts' \/ posts'[p] # posts[p]
CommentChanged(c) == c \in DOMAIN comments' /\ comments'[c] # comments[c]
CommentDeleted(c) == c \notin DOMAIN comments'
FromBlogView == resp'.view \notin {"admin", "idle"}

ByPostAuthor(p) ==
    /\ resp'.view \in {"edit_post", "delete_post"}
    /\ resp'.post_id = p
    /\ is_authenticated(resp'.user)
    /\ resp'.user = posts[p].author

ByCommentAuthor(c, views) ==
    /\ resp'.view \in views
    /\ resp'.comment_id = c
    /\ is_authenticated(resp'.user)
    /\ resp'.user = comments[c].author

C2Original ==
    (resp.view = "post_detail" /\ resp.post_id \in DOMAIN posts) =>
        resp.status = IF \/ posts[resp.post_id].author = resp.user
                         \/ Visible(resp.post_id, now)
                      THEN 200 ELSE 404

\* C3 (as stated): the index lists exactly the posts visible at request time.
C3Original ==
    resp.view = "index" =>
        resp.list = {p \in DOMAIN posts : Visible(p, now)}

\* C4 (as stated): a published post in a published category is hidden from
\* non-authors before its pub_date and, from pub_date on, rendered by
\* post_detail and listed by the index, its category page and its author's
\* profile page.
C4Shown(p) ==
    CASE resp.view = "post_detail" -> resp.status = 200
      [] OTHER -> resp.status = 200 /\ p \in resp.list

C4Asked(p) ==
    \/ resp.view = "post_detail" /\ resp.post_id = p
    \/ resp.view = "index"
    \/ resp.view = "category" /\ resp.arg = posts[p].category
    \/ resp.view = "profile" /\ resp.arg = posts[p].author

C4Original ==
    \A p \in DOMAIN posts :
        (/\ posts[p].is_published
         /\ posts[p].category \in Categories
         /\ catPub[posts[p].category]
         /\ resp.user # posts[p].author
         /\ C4Asked(p)) =>
            (C4Shown(p) <=> posts[p].pub_date <= now)

\* C5: profile_details answers 404 for an unknown username; for user U it lists
\* all of U's posts when U asks, and U's visible posts when anyone else asks.
C5Theorem ==
    resp.view = "profile" =>
        IF resp.arg \notin Users
        THEN resp.status = 404
        ELSE /\ resp.status = 200
             /\ resp.list =
                  IF resp.user = resp.arg
                  THEN {p \in DOMAIN posts : posts[p].author = resp.arg}
                  ELSE {p \in DOMAIN posts :
                           posts[p].author = resp.arg /\ Visible(p, now)}

C5Witness ==
    /\ resp.view = "profile"
    /\ resp.user = resp.arg
    /\ \E p \in resp.list : ~Visible(p, now)
    /\ \E q \in DOMAIN posts : posts[q].author # resp.arg /\ Visible(q, now)

\* C6: category_posts answers 404 for an unknown or unpublished category, and
\* otherwise lists exactly that category's published posts whose pub_date has
\* come, whoever asks.
C6Theorem ==
    resp.view = "category" =>
        IF resp.arg \notin Categories \/ ~catPub[resp.arg]
        THEN resp.status = 404
        ELSE /\ resp.status = 200
             /\ resp.list = {p \in DOMAIN posts : /\ posts[p].category = resp.arg
                                                  /\ posts[p].is_published
                                                  /\ posts[p].pub_date <= now}

C6Witness ==
    /\ resp.view = "category"
    /\ resp.status = 200
    /\ \E p \in resp.list : posts[p].author = resp.user
    /\ \E q \in DOMAIN posts : posts[q].category # resp.arg /\ Visible(q, now)

\* C7: edit_post, delete_post, edit_comment and delete_comment, asked by an
\* authenticated user who is not the author of the existing object the URL
\* names, redirect to the detail page of the URL's post and change no post and
\* no comment, whatever the method.
C7Object ==
    IF resp'.view \in {"edit_post", "delete_post"}
    THEN /\ resp'.post_id \in DOMAIN posts
         /\ resp'.user # posts[resp'.post_id].author
    ELSE /\ resp'.view \in {"edit_comment", "delete_comment"}
         /\ resp'.comment_id \in DOMAIN comments
         /\ comments[resp'.comment_id].post = resp'.post_id
         /\ resp'.user # comments[resp'.comment_id].author

C8Mismatch ==
    /\ resp = Idle
    /\ resp'.view \in {"edit_comment", "delete_comment"}
    /\ ~(/\ resp'.comment_id \in DOMAIN comments
         /\ comments[resp'.comment_id].post = resp'.post_id)

C8Original ==
    [][C8Mismatch => (resp'.status = 404 /\ comments' = comments)]_vars

\* C8 (amended): such a request by an authenticated user answers 404, by an
\* anonymous one it is redirected to the login page; in both cases no comment
\* is changed or deleted.
C8Amended ==
    [][C8Mismatch =>
          /\ comments' = comments
          /\ IF is_authenticated(resp'.user)
             THEN resp'.status = 404
             ELSE resp'.status = 302 /\ resp'.target = "login"]_vars

C8Witness ==
    /\ resp.view = "edit_comment"
    /\ resp.method = "POST"
    /\ resp.status = 404
    /\ resp.comment_id \in DOMAIN comments
    /\ comments[resp.comment_id].post # resp.post_id
    /\ resp.post_id \in DOMAIN posts
    /\ comments[resp.comment_id].author = resp.user

\* C9 (as stated): add_comment creates a comment only for an authenticated user,
\* and never for a user who is not the post's author on a post hidden from them
\* by an unpublished post, an unpublished category or a future pub_date.
C9Hidden(p) ==
    \/ ~posts[p].is_published
    \/ posts[p].category \in Categories /\ ~catPub[posts[p].category]
    \/ posts[p].pub_date > now

C9Original ==
    (resp.view = "add_comment" /\ resp.comment_id # 0) =>
        /\ is_authenticated(resp.user)
        /\ resp.post_id \in DOMAIN posts
        /\ \/ posts[resp.post_id].author = resp.user
           \/ ~C9Hidden(resp.post_id)

====
